---- MODULE Spec2Model ----
(***************************************************************************)
(* k-nearest-neighbour search of btharp/matting (matting/c).               *)
(*                                                                         *)
(* knn.c      : knn(), the batch driver: allocates the index permutation,  *)
(*              builds one k-d tree, runs one query per query point and    *)
(*              writes (index, sqrt(squared distance)) pairs.              *)
(* tests.c    : naive_knn(), the brute-force reference, and test_knn(),    *)
(*              which runs both on the same inputs and asserts equality.   *)
(* kdtree.c   : kdtree_init / kdtree_find_knn / kdtree_free.  Not among    *)
(*              the source files; modelled from spec.md sections 3 and 4   *)
(*              (the definitions marked "spec.md" below).                  *)
(*                                                                         *)
(* The run is test_knn(n, m, d, k): naive_knn to completion, then knn,     *)
(* then the comparison of the two pairs of output buffers.                 *)
(*                                                                         *)
(* Coordinates are small non-negative integers, which float represents     *)
(* exactly, so sums of squared differences are exact.  A float held in an  *)
(* array of floats (naive_knn's distances, the output buffers) is the pair *)
(* <<h, l>> with value * SqrtScale = h * FloatRadix + l, 0 <= l <          *)
(* FloatRadix; only sqrt rounds.                                           *)
(*                                                                         *)
(* Each output buffer is written through a pointer that only advances; the *)
(* model keeps the entries written so far, in order, so the pointer is at  *)
(* the length of the sequence.                                             *)
(***************************************************************************)
EXTENDS Integers, Sequences, FiniteSets, TLC

\* ---------------------------------------------------------------- bounds
MaxN == 3
MaxCells == 6
MaxQueryCells == 2
MaxCoord == 1
MaxK == 3
MaxQ == 2
SqrtScale == 1024
SizeBits == 20

\* point dimensions: 0 (malformed), 1 (one axis), 2 (axes alternate by depth)
Dimensions == 0..2

\* ------------------------------------------------------ program constants
\* sizeof(*indices), knn.c:16 (size_t on the 64-bit build)
SizeofIndex == 8
\* base of the two-digit form of a float value
FloatRadix == 10 ^ 5
\* 1e10f, tests.c:38: the distance of an unfilled slot.
\* 1e10 * SqrtScale = (10^5 * SqrtScale) * FloatRadix + 0
FarAway == <<(10 ^ 5) * SqrtScale, 0>>
\* -1, tests.c:37: the index of an unfilled slot
NoIndex == -1
\* spec.md 3: leaf bucket threshold ("an implementation constant, e.g. 1-16")
LeafSize == 1

VARIABLES
    data_points,      \* test_knn's buffer, n*d coordinates, point j at j*d+1 .. j*d+d
    query_points,     \* test_knn's buffer, m*d coordinates
    n_data_points,
    n_query_points,
    point_dimension,
    k,
    pc,               \* "naive", "knn", "init", "build", "diverged", "declare",
                      \* "query", "compare", "passed", "aborted"
    malloc_requests,  \* byte counts knn passed to malloc, in call order
    indices,          \* the permutation array knn allocates and the tree owns
    nodes,            \* the tree: an arena of nodes, root at 1
    stack,            \* kdtree_init's pending sub-ranges (its recursion)
    points_read,      \* whether Build has read the point buffer
    i,                \* knn's query loop counter
    query_point,      \* knn's query_point of the last iteration (knn.c:32)
    neighbors,        \* candidate set left by the last kdtree_find_knn
    n_neighbors,
    far_events,       \* far-child decisions of the last kdtree_find_knn
    out_idx1,         \* neighbor_indices1: what naive_knn has written
    out_dist1,        \* neighbor_distances1: the same
    out_idx2,         \* neighbor_indices2: what knn has written
    out_dist2         \* neighbor_distances2: the same

vars == <<data_points, query_points, n_data_points, n_query_points,
          point_dimension, k, pc,
          malloc_requests, indices, nodes, stack, points_read, i, query_point,
          neighbors, n_neighbors, far_events,
          out_idx1, out_dist1, out_idx2, out_dist2>>

\* ---------------------------------------------------------------- helpers
Min(a, b) == IF a < b THEN a ELSE b
Max(a, b) == IF a > b THEN a ELSE b
Range(s) == {s[x] : x \in 1..Len(s)}
Swap(s, a, b) == [s EXCEPT ![a] = s[b], ![b] = s[a]]
\* the elements a..b of s (1-based), as a sequence
Slice(s, a, b) == [x \in 1..(b - a + 1) |-> s[a + x - 1]]

\* conversion of an int to size_t (width reduced to SizeBits bits)
ToSizeT(x) == x % (2 ^ SizeBits)

\* coordinate c (0-based) of point j (0-based) in a flat buffer
Coord(buf, d, j, c) == buf[j * d + c + 1]

\* float dist = 0; for c < d: diff = p[c] - q[c]; dist += diff*diff
RECURSIVE SumSq(_, _, _, _, _)
SumSq(buf, d, q, j, c) ==
    IF c >= d THEN 0
    ELSE LET diff == q[c + 1] - Coord(buf, d, j, c)
         IN diff * diff + SumSq(buf, d, q, j, c + 1)

SqDist(buf, d, q, j) == SumSq(buf, d, q, j, 0)

\* point t (0-based) of a flat buffer: the pointer buf + t*d, read at 0..d-1
PointAt(buf, d, t) == [c \in 1..d |-> buf[t * d + c]]

\* the float value of a non-negative integer x (exactly representable)
FloatOf(x) ==
    LET t == (x % FloatRadix) * SqrtScale
    IN <<(x \div FloatRadix) * SqrtScale + t \div FloatRadix, t % FloatRadix>>

\* a <= b on float values
FloatLeq(a, b) == a[1] < b[1] \/ (a[1] = b[1] /\ a[2] <= b[2])

\* largest r in lo..hi with r*r <= x  (lo*lo <= x < (hi+1)*(hi+1))
RECURSIVE IsqrtIn(_, _, _)
IsqrtIn(x, lo, hi) ==
    IF lo >= hi THEN lo
    ELSE LET mid == (lo + hi + 1) \div 2
         IN IF mid * mid <= x THEN IsqrtIn(x, mid, hi) ELSE IsqrtIn(x, lo, mid - 1)

\* sqrt() of the non-negative integer x, rounded to the nearest multiple of
\* 1/SqrtScale: round(sqrt(x) * SqrtScale), as a float value
Sqrt(x) ==
    LET y == x * SqrtScale * SqrtScale
        r == IsqrtIn(y, 0, (x + 1) * SqrtScale)
        n == IF y - r * r > r THEN r + 1 ELSE r
    IN <<n \div FloatRadix, n % FloatRadix>>

\* ------------------------------------------------- tests.c: naive_knn
\* tests.c:33-39: the two local arrays of k+1 slots; slots 0..k-1 are set,
\* slot k is written by the scan before it is ever read.
NaiveInitArrays(kk) ==
    [indices   |-> [c \in 1..(kk + 1) |-> IF c <= kk THEN NoIndex ELSE "unset"],
     distances |-> [c \in 1..(kk + 1) |-> IF c <= kk THEN FarAway ELSE "unset"]]

\* tests.c:56-61: for (c = k; c > 0; c--) { if (distances[c-1] <= distances[c])
\* break; SWAP both arrays }.  c is the C loop variable (0-based).
RECURSIVE NaiveBubble(_, _)
NaiveBubble(arr, c) ==
    IF c <= 0 THEN arr
    ELSE IF FloatLeq(arr.distances[c], arr.distances[c + 1]) THEN arr
    ELSE NaiveBubble([indices   |-> Swap(arr.indices, c, c + 1),
                      distances |-> Swap(arr.distances, c, c + 1)], c - 1)

\* tests.c:53-61: put data point j with distance dist into slot k, bubble it up
NaiveInsert(arr, kk, j, dist) ==
    NaiveBubble([indices   |-> [arr.indices EXCEPT ![kk + 1] = j],
                 distances |-> [arr.distances EXCEPT ![kk + 1] = dist]], kk)

\* tests.c:43-62: the scan over the data points j, j+1, ..., n-1
RECURSIVE NaiveScan(_, _, _, _, _, _, _)
NaiveScan(arr, buf, q, n, d, kk, j) ==
    IF j >= n THEN arr
    ELSE NaiveScan(NaiveInsert(arr, kk, j, FloatOf(SqDist(buf, d, q, j))),
                   buf, q, n, d, kk, j + 1)

\* tests.c:32-68, one iteration of the query loop: the k slots it emits
NaiveQuery(buf, q, n, d, kk) ==
    LET arr == NaiveScan(NaiveInitArrays(kk), buf, q, n, d, kk, 0)
    IN [indices   |-> Slice(arr.indices, 1, kk),
        distances |-> Slice(arr.distances, 1, kk)]

\* tests.c:64-67: the slots of one iteration go after what is already written
NaiveEmit(out, one) ==
    [indices   |-> out.indices \o one.indices,
     distances |-> out.distances \o one.distances]

\* tests.c:22-69: the query loop from iteration t on; out is what the two out
\* pointers have written so far
RECURSIVE naive_knn(_, _, _, _, _, _, _, _)
naive_knn(buf, qbuf, n, m, d, kk, t, out) ==
    IF t >= m THEN out
    ELSE naive_knn(buf, qbuf, n, m, d, kk, t + 1,
                   NaiveEmit(out, NaiveQuery(buf, PointAt(qbuf, d, t), n, d, kk)))

\* ------------------------------------------- spec.md 4.1: SpatialIndex
\* A node of the arena.  Leaves hold the slice [lo, hi) of the permutation;
\* internal nodes hold axis, split_value and the arena ids of their children.
LeafNode(lo, hi) ==
    [kind |-> "leaf", lo |-> lo, hi |-> hi, axis |-> 0, split |-> 0,
     left |-> 0, right |-> 0]
InternalNode(lo, hi, axis, split, l, r) ==
    [kind |-> "node", lo |-> lo, hi |-> hi, axis |-> axis, split |-> split,
     left |-> l, right |-> r]
PendingNode(lo, hi) ==
    [kind |-> "pending", lo |-> lo, hi |-> hi, axis |-> 0, split |-> 0,
     left |-> 0, right |-> 0]

\* spec.md 4.1 step 2: "a deterministic policy, e.g. depth mod d"
SplitAxis(depth, d) == depth % d

\* spec.md 4.1 step 2: "the median coordinate along that axis over the
\* current range": the element at position len/2 of the sorted coordinates
Median(perm, buf, d, axis, lo, hi) ==
    LET pos == (lo + 1)..hi
        h   == (hi - lo) \div 2
        below(v) == Cardinality({x \in pos : Coord(buf, d, perm[x], axis) < v})
        upto(v)  == Cardinality({x \in pos : Coord(buf, d, perm[x], axis) <= v})
    IN CHOOSE v \in {Coord(buf, d, perm[x], axis) : x \in pos} :
           below(v) <= h /\ h < upto(v)

\* spec.md 4.1 step 3: "partition the index range in place so all indices
\* with coord[axis] < split_value precede the rest".  One pass: m is the end
\* of the "<" part, j the next position to look at (both 0-based).
RECURSIVE Partition(_, _, _, _, _, _, _, _)
Partition(perm, buf, d, axis, split, m, j, hi) ==
    IF j >= hi THEN [perm |-> perm, mid |-> m]
    ELSE IF Coord(buf, d, perm[j + 1], axis) < split
         THEN Partition(Swap(perm, m + 1, j + 1), buf, d, axis, split, m + 1, j + 1, hi)
         ELSE Partition(perm, buf, d, axis, split, m, j + 1, hi)

\* spec.md 4.1: "d <= 0 or negative n ... reject defensively by returning an
\* empty index"; "if n == 0, the index is a single empty leaf"
EmptyIndex == <<LeafNode(0, 0)>>

WellFormed(n, d) == n >= 0 /\ d >= 1

\* the data indices under node id, in tree order
RECURSIVE LeafOrder(_, _, _)
LeafOrder(tree, perm, id) ==
    IF tree[id].kind = "node"
    THEN LeafOrder(tree, perm, tree[id].left) \o LeafOrder(tree, perm, tree[id].right)
    ELSE Slice(perm, tree[id].lo + 1, tree[id].hi)

\* --------------------------------------------- spec.md 4.2: KnnQuery
\* spec.md 4.2 Admit: the new entry goes into the slot after the last one (the
\* scratch slot when the set is full) and moves ahead of entries with a strictly
\* greater squared distance; a full set then drops its last entry.
RECURSIVE AdmitBubble(_, _)
AdmitBubble(nb, c) ==
    IF c <= 1 THEN nb
    ELSE IF nb[c - 1].distance <= nb[c].distance THEN nb
    ELSE AdmitBubble(Swap(nb, c - 1, c), c - 1)

Admit(nb, kk, idx, dist) ==
    LET placed == Append(nb, [index |-> idx, distance |-> dist])
        sorted == AdmitBubble(placed, Len(placed))
    IN IF Len(nb) < kk THEN sorted ELSE Slice(sorted, 1, kk)

\* spec.md 4.2: "at a leaf, compute the squared Euclidean distance from the
\* query point to every point in the bucket and attempt to admit each"
RECURSIVE ScanLeaf(_, _, _, _, _, _, _, _)
ScanLeaf(perm, buf, d, q, kk, pos, hi, nb) ==
    IF pos >= hi THEN nb
    ELSE ScanLeaf(perm, buf, d, q, kk, pos + 1, hi,
                  Admit(nb, kk, perm[pos + 1], SqDist(buf, d, q, perm[pos + 1])))

\* (mutant of FarVisited) the fullness test is forgotten
FarVisited_PlaneOnly(count, kk, plane, worst) == plane < worst

\* spec.md 4.2: "the far side is visited only when the candidate set is not
\* yet full OR (query[axis] - split_value)^2 is less than the current worst"
FarVisited(count, kk, plane, worst) == count < kk \/ plane < worst

\* spec.md 4.2: recursive descent, near child first.  acc.nb is the candidate
\* set, acc.ev the log of the far-child decisions taken so far.
RECURSIVE Search(_, _, _, _, _, _, _, _)
Search(tree, perm, buf, d, q, kk, id, acc) ==
    LET nd == tree[id] IN
    IF nd.kind # "node"
    THEN [nb |-> ScanLeaf(perm, buf, d, q, kk, nd.lo, nd.hi, acc.nb), ev |-> acc.ev]
    ELSE LET onLeft == q[nd.axis + 1] < nd.split
             near   == IF onLeft THEN nd.left ELSE nd.right
             far    == IF onLeft THEN nd.right ELSE nd.left
             a1     == Search(tree, perm, buf, d, q, kk, near, acc)
             count  == Len(a1.nb)
             worst  == IF count > 0 THEN a1.nb[count].distance ELSE -1
             diff   == q[nd.axis + 1] - nd.split
             plane  == diff * diff
             visit  == FarVisited(count, kk, plane, worst)
             a2     == [nb |-> a1.nb,
                        ev |-> Append(a1.ev, [far |-> far, visited |-> visit,
                                              count |-> count, worst |-> worst,
                                              plane |-> plane])]
         IN IF visit THEN Search(tree, perm, buf, d, q, kk, far, a2) ELSE a2

\* spec.md 4.2 FindKNN: "if k == 0 or n == 0, returns an empty sequence".
\* n is the count stored through the n_neighbors pointer (knn.c:34-35).
kdtree_find_knn(tree, perm, buf, d, q, kk) ==
    LET r == IF kk = 0 THEN [nb |-> <<>>, ev |-> <<>>]
             ELSE Search(tree, perm, buf, d, q, kk, 1, [nb |-> <<>>, ev |-> <<>>])
    IN [nb |-> r.nb, n |-> Len(r.nb), ev |-> r.ev]

\* ------------------------------------------------------- knn.c: knn
\* (mutant of InitIndices) the fill is one behind: indices[i] = i - 1, from 0
InitIndices_OneBehind(n) == [x \in 1..Max(n, 0) |-> Max(x - 2, 0)]

\* knn.c:18-20: for (i = 0; i < n; i++) indices[i] = i
InitIndices(n) == [x \in 1..Max(n, 0) |-> x - 1]

\* (mutant of KnnOutput) the loop stops one entry early: j < n_neighbors - 1
KnnOutput_OneShort(nb, cnt) ==
    [indices   |-> [j \in 1..(cnt - 1) |-> nb[j].index],
     distances |-> [j \in 1..(cnt - 1) |-> Sqrt(nb[j].distance)]]

\* (mutant of KnnOutput) the candidate set is read from its last entry back
KnnOutput_Reversed(nb, cnt) ==
    [indices   |-> [j \in 1..cnt |-> nb[cnt + 1 - j].index],
     distances |-> [j \in 1..cnt |-> Sqrt(nb[cnt + 1 - j].distance)]]

\* knn.c:37-40: the n_neighbors pairs one query writes
KnnOutput(nb, cnt) ==
    [indices   |-> [j \in 1..cnt |-> nb[j].index],
     distances |-> [j \in 1..cnt |-> Sqrt(nb[j].distance)]]

\* ------------------------------------------------------------ the run
\* tests.c:75-107: test_knn(n, m, d, k) with its two input buffers filled and
\* its four output buffers allocated
Init ==
    /\ n_data_points \in -1..MaxN
    /\ point_dimension \in Dimensions
    /\ n_query_points \in 0..MaxQ
    /\ k \in 0..MaxK
    /\ Max(n_data_points, 0) * point_dimension <= MaxCells
    /\ n_query_points * point_dimension <= MaxQueryCells
    /\ data_points \in [1..(Max(n_data_points, 0) * point_dimension) -> 0..MaxCoord]
    /\ query_points \in [1..(n_query_points * point_dimension) -> 0..MaxCoord]
    /\ pc = "naive"
    /\ malloc_requests = <<>>
    /\ indices = <<>>
    /\ nodes = <<>>
    /\ stack = <<>>
    /\ points_read = FALSE
    /\ i = 0
    /\ query_point = <<>>
    /\ neighbors = <<>>
    /\ n_neighbors = 0
    /\ far_events = <<>>
    /\ out_idx1 = <<>>
    /\ out_dist1 = <<>>
    /\ out_idx2 = <<>>
    /\ out_dist2 = <<>>

\* tests.c:109: naive_knn runs to completion on the first pair of buffers
NaiveKnn ==
    /\ pc = "naive"
    /\ \E nv \in {naive_knn(data_points, query_points, n_data_points, n_query_points,
                            point_dimension, k, 0,
                            [indices |-> <<>>, distances |-> <<>>])} :
            /\ out_idx1' = nv.indices
            /\ out_dist1' = nv.distances
    /\ pc' = "knn"
    /\ UNCHANGED <<data_points, query_points, n_data_points, n_query_points,
                   point_dimension, k, malloc_requests, indices, nodes, stack,
                   points_read, i, query_point, neighbors, n_neighbors, far_events,
                   out_idx2, out_dist2>>

\* tests.c:110 entering knn; knn.c:16-20: malloc(n_data_points*sizeof(*indices))
\* and the fill loop.  A request made from a negative n is refused (NULL) and
\* the loop body never runs, so the array stays empty.
KnnAlloc ==
    /\ pc = "knn"
    /\ malloc_requests' =
           Append(malloc_requests, (ToSizeT(n_data_points) * SizeofIndex) % (2 ^ SizeBits))
    /\ indices' = InitIndices(n_data_points)
    /\ pc' = "init"
    /\ UNCHANGED <<data_points, query_points, n_data_points, n_query_points,
                   point_dimension, k,
                   nodes, stack, points_read, i, query_point, neighbors,
                   n_neighbors, far_events, out_idx1, out_dist1,
                   out_idx2, out_dist2>>

\* knn.c:22-26 entering kdtree_init (spec.md 4.1 Build): a malformed input
\* gives the empty index, otherwise the whole range is the first sub-range.
KdtreeInit ==
    /\ pc = "init"
    /\ IF WellFormed(n_data_points, point_dimension)
       THEN /\ nodes' = <<PendingNode(0, n_data_points)>>
            /\ stack' = <<[node |-> 1, lo |-> 0, hi |-> n_data_points,
                           depth |-> 0, stall |-> 0]>>
            /\ pc' = "build"
       ELSE /\ nodes' = EmptyIndex
            /\ stack' = <<>>
            /\ pc' = "declare"
    /\ UNCHANGED <<data_points, query_points, n_data_points, n_query_points,
                   point_dimension, k,
                   malloc_requests, indices, points_read, i, query_point, neighbors,
                   n_neighbors, far_events, out_idx1, out_dist1,
                   out_idx2, out_dist2>>

\* spec.md 4.1 step 1: a range no longer than the bucket threshold is a leaf
BuildLeaf ==
    /\ pc = "build"
    /\ stack # <<>>
    /\ LET w == Head(stack) IN
       /\ w.hi - w.lo <= LeafSize
       /\ nodes' = [nodes EXCEPT ![w.node] = LeafNode(w.lo, w.hi)]
       /\ stack' = Tail(stack)
       /\ pc' = IF Tail(stack) = <<>> THEN "declare" ELSE "build"
    /\ UNCHANGED <<data_points, query_points, n_data_points, n_query_points,
                   point_dimension, k,
                   malloc_requests, indices, points_read, i, query_point, neighbors,
                   n_neighbors, far_events, out_idx1, out_dist1,
                   out_idx2, out_dist2>>

\* spec.md 4.1 steps 2-3: pick axis and split value, partition the range in
\* place, recurse on [lo, mid) and [mid, hi).  stall counts the consecutive
\* splits above this range that put nothing on the left; such a split changes
\* neither the range nor the order inside it, so after one on each of the d
\* axes the recursion is back where it was and repeats without end.  The model
\* records that as pc = "diverged" instead of unfolding it.
BuildSplit ==
    /\ pc = "build"
    /\ stack # <<>>
    /\ LET w     == Head(stack)
           axis  == SplitAxis(w.depth, point_dimension)
           split == Median(indices, data_points, point_dimension, axis, w.lo, w.hi)
           part  == Partition(indices, data_points, point_dimension, axis, split,
                              w.lo, w.lo, w.hi)
           stl   == IF part.mid = w.lo THEN w.stall + 1 ELSE 0
           l     == Len(nodes) + 1
           r     == Len(nodes) + 2
       IN
       /\ w.hi - w.lo > LeafSize
       /\ points_read' = TRUE
       /\ indices' = part.perm
       /\ IF stl >= point_dimension
          THEN /\ pc' = "diverged"
               /\ UNCHANGED <<nodes, stack>>
          ELSE /\ nodes' = [nodes EXCEPT ![w.node] =
                                InternalNode(w.lo, w.hi, axis, split, l, r)]
                           \o <<PendingNode(w.lo, part.mid), PendingNode(part.mid, w.hi)>>
               /\ stack' = <<[node |-> l, lo |-> w.lo, hi |-> part.mid,
                              depth |-> w.depth + 1, stall |-> stl],
                             [node |-> r, lo |-> part.mid, hi |-> w.hi,
                              depth |-> w.depth + 1, stall |-> stl]>>
                           \o Tail(stack)
               /\ pc' = "build"
    /\ UNCHANGED <<data_points, query_points, n_data_points, n_query_points,
                   point_dimension, k,
                   malloc_requests, i, query_point, neighbors,
                   n_neighbors, far_events, out_idx1, out_dist1,
                   out_idx2, out_dist2>>

\* knn.c:29-31: struct kdtree_neighbor neighbors[k + 1]; i = 0
KnnDeclare ==
    /\ pc = "declare"
    /\ i' = 0
    /\ pc' = "query"
    /\ UNCHANGED <<data_points, query_points, n_data_points, n_query_points,
                   point_dimension, k,
                   malloc_requests, indices, nodes, stack, points_read, query_point,
                   neighbors, n_neighbors, far_events, out_idx1, out_dist1,
                   out_idx2, out_dist2>>

\* knn.c:31-40, one iteration: query_point = query_points + i*d,
\* n_neighbors = 0, kdtree_find_knn, write the n_neighbors pairs through the
\* two out pointers
Query ==
    /\ pc = "query"
    /\ i < n_query_points
    /\ \E q \in {PointAt(query_points, point_dimension, i)} :
       \E r \in {kdtree_find_knn(nodes, indices, data_points, point_dimension, q, k)} :
       \E o \in {KnnOutput(r.nb, r.n)} :
            /\ query_point' = q
            /\ neighbors' = r.nb
            /\ n_neighbors' = r.n
            /\ far_events' = r.ev
            /\ out_idx2' = out_idx2 \o o.indices
            /\ out_dist2' = out_dist2 \o o.distances
    /\ i' = i + 1
    /\ UNCHANGED <<data_points, query_points, n_data_points, n_query_points,
                   point_dimension, k,
                   pc, malloc_requests, indices, nodes, stack, points_read,
                   out_idx1, out_dist1>>

\* knn.c:43-44: kdtree_free(tree); free(indices); knn returns to test_knn
KnnFree ==
    /\ pc = "query"
    /\ i = n_query_points
    /\ pc' = "compare"
    /\ nodes' = <<>>
    /\ indices' = <<>>
    /\ UNCHANGED <<data_points, query_points, n_data_points, n_query_points,
                   point_dimension, k,
                   malloc_requests, stack, points_read, i, query_point, neighbors,
                   n_neighbors, far_events, out_idx1, out_dist1,
                   out_idx2, out_dist2>>

\* tests.c:112-115: for j < m*k, assert the two distances and the two indices
\* at j are equal.  A position knn never wrote holds whatever malloc left
\* there, so an assert that reads one can go either way.
TestCompare ==
    /\ pc = "compare"
    /\ LET total    == n_query_points * k
           written  == Min(Len(out_idx2), total)
           mismatch == \E j \in 1..written : \/ out_dist1[j] # out_dist2[j]
                                             \/ out_idx1[j] # out_idx2[j]
       IN pc' \in IF mismatch THEN {"aborted"}
                  ELSE IF written < total THEN {"passed", "aborted"}
                  ELSE {"passed"}
    /\ UNCHANGED <<data_points, query_points, n_data_points, n_query_points,
                   point_dimension, k,
                   malloc_requests, indices, nodes, stack, points_read, i,
                   query_point, neighbors, n_neighbors, far_events,
                   out_idx1, out_dist1, out_idx2, out_dist2>>

Next ==
    \/ NaiveKnn \/ KnnAlloc \/ KdtreeInit \/ BuildLeaf \/ BuildSplit
    \/ KnnDeclare \/ Query \/ KnnFree \/ TestCompare

Spec == Init /\ [][Next]_vars

\* ============================================================= claims
\* knn has run at least one query and the latest one is query i - 1
Queried == pc = "query" /\ i > 0
\* s holds every one of 0..n-1 exactly once
IsPermutation(s, n) == Len(s) = n /\ {s[x] : x \in 1..Len(s)} = 0..(n - 1)
\* squared distance from the latest query point to data point j
QDist(j) == SqDist(data_points, point_dimension, query_point, j)
\* the pairs the latest query wrote: the last n_neighbors entries
LastIdx == Slice(out_idx2, Len(out_idx2) - n_neighbors + 1, Len(out_idx2))
LastDist == Slice(out_dist2, Len(out_dist2) - n_neighbors + 1, Len(out_dist2))
\* the reference scan of the latest query point (tests.c:43-62)
RefScan ==
    NaiveScan(NaiveInitArrays(k), data_points, query_point,
              n_data_points, point_dimension, k, 0)

\* C1: for 0 <= k <= n, the indices knn returns for a query equal, position by
\* position, those of the naive scan in increasing index order with strict
\* improvement, and the distances are the square roots of that scan's squared
\* distances.
C1_EqualsNaiveScan ==
    (Queried /\ WellFormed(n_data_points, point_dimension) /\ k <= n_data_points)
    => /\ n_neighbors = k
       /\ \A c \in 1..k : /\ LastIdx[c] = RefScan.indices[c]
                          /\ LastDist[c] = Sqrt(QDist(RefScan.indices[c]))
                          /\ RefScan.distances[c] = FloatOf(QDist(RefScan.indices[c]))

\* C2: every query against an index of n points returns exactly min(k, n)
\* pairs: none when k = 0 or n = 0, and n when k > n.
C2_Cardinality ==
    (Queried /\ WellFormed(n_data_points, point_dimension))
    => /\ n_neighbors = Min(k, n_data_points)
       /\ Len(out_idx2) = i * Min(k, n_data_points)
       /\ Len(out_dist2) = i * Min(k, n_data_points)

C2_Witness ==
    /\ pc = "query" /\ i = 2
    /\ n_data_points >= 2 /\ k > n_data_points
    /\ n_neighbors = n_data_points /\ Len(out_idx2) = 2 * n_data_points

\* C3: in every query result, of two data points at exactly the same distance
\* the lower-indexed one is ranked first, and no point is in the result while
\* a lower-indexed point at the same distance is left out.
C3_LowestIndexWinsTies ==
    (Queried /\ WellFormed(n_data_points, point_dimension))
    => /\ \A a, b \in 1..n_neighbors :
              (a < b /\ QDist(LastIdx[a]) = QDist(LastIdx[b]))
              => LastIdx[a] < LastIdx[b]
       /\ \A a \in 1..n_neighbors : \A j \in 0..(n_data_points - 1) :
              (j \notin Range(LastIdx) /\ QDist(j) = QDist(LastIdx[a]))
              => LastIdx[a] < j

\* C4: after Build, and after every partition step during Build, the index
\* array is a permutation of 0..n-1, and the leaf buckets (ranges still to be
\* split included) read in tree order are that array: every data index is in
\* exactly one of them.
C4_Permutation ==
    (pc \in {"build", "diverged", "declare", "query"}
       /\ WellFormed(n_data_points, point_dimension))
    => /\ IsPermutation(indices, n_data_points)
       /\ \A x \in 1..n_data_points : LeafOrder(nodes, indices, 1)[x] = indices[x]
       /\ Len(LeafOrder(nodes, indices, 1)) = n_data_points

C4_Witness ==
    /\ pc = "declare"
    /\ n_data_points = 3
    /\ Len(nodes) >= 5
    /\ indices # InitIndices(n_data_points)

\* C5: the distances a query returns are non-decreasing from first to last.
C5_Sorted ==
    Queried => \A a \in 1..(n_neighbors - 1) : FloatLeq(LastDist[a], LastDist[a + 1])

C5_Witness ==
    /\ pc = "query" /\ i > 0
    /\ n_neighbors = 3
    /\ ~FloatLeq(LastDist[2], LastDist[1]) /\ ~FloatLeq(LastDist[3], LastDist[2])
    /\ indices # InitIndices(n_data_points)

\* C6: for every test configuration (k <= n) and every output position
\* j < m*k, the distance knn writes at j equals the distance naive_knn writes
\* at j (tests.c:113), naive_knn writing its accumulated sum of squares.
C6_TestDistancesEqual ==
    (pc = "compare" /\ WellFormed(n_data_points, point_dimension)
       /\ k <= n_data_points)
    => /\ Len(out_dist1) = n_query_points * k
       /\ Len(out_dist2) = n_query_points * k
       /\ \A j \in 1..(n_query_points * k) : out_dist1[j] = out_dist2[j]

\* C7: Build called with d <= 0 or negative n returns an empty index, with no
\* allocation sized from the bad value and no read of the point buffer, and
\* every later query returns nothing.
C7_RejectsMalformed ==
    (~WellFormed(n_data_points, point_dimension) /\ pc \notin {"naive", "knn"})
    => /\ n_data_points < 0 => malloc_requests = <<>>
       /\ ~points_read
       /\ pc \in {"declare", "query"} => nodes = EmptyIndex
       /\ Queried => (n_neighbors = 0 /\ out_idx2 = <<>> /\ out_dist2 = <<>>)

\* C8: whenever a query skips the far child of an internal node, the candidate
\* set holds k entries and no point of the skipped subtree is strictly closer
\* than the k-th best held at that moment; and the far child is visited
\* whenever the set holds fewer than k entries or (query[axis] - split)^2 is
\* less than the k-th best.
C8_Pruning ==
    Queried
    => \A x \in 1..Len(far_events) :
         LET e == far_events[x] IN
         /\ ~e.visited
            => /\ e.count = k
               /\ \A y \in 1..Len(LeafOrder(nodes, indices, e.far)) :
                      QDist(LeafOrder(nodes, indices, e.far)[y]) >= e.worst
         /\ (e.count < k \/ e.plane < e.worst) => e.visited

C8_Witness ==
    /\ pc = "query" /\ i > 0
    /\ \E x, y \in 1..Len(far_events) :
         /\ ~far_events[x].visited
         /\ Len(LeafOrder(nodes, indices, far_events[x].far)) > 0
         /\ far_events[y].visited /\ far_events[y].count = k

\* C9: Build and every query terminate for every well-formed input, data sets
\* whose points share a coordinate on the split axis included.  No step of
\* Build leads back to an earlier state, so Build terminates exactly when,
\* until it has returned, a next step of it is always possible; a query is one
\* step and the query loop ends because its counter is bounded.
C9_Terminates ==
    /\ pc \in {"knn", "init", "build", "diverged"}
       => ENABLED (KnnAlloc \/ KdtreeInit \/ BuildLeaf \/ BuildSplit)
    /\ pc = "query" => i <= n_query_points

====
